---- MODULE Spec2Model ----
\* Model of packages/next/src/lib/metadata/metadata.tsx:
\* createMetadataComponents (MetadataTree + getMetadataReady) and
\* getResolvedMetadata, on a single-threaded JavaScript job queue.
EXTENDS Integers, Sequences, FiniteSets, TLC

\* ---------------------------------------------------------------- bounds
\* Total number of MetadataTree executions (renders and re-renders).
MaxExec == 2
\* Total number of getMetadataReady invocations.
MaxOutlet == 2
\* Total number of calls the host makes, of either function.
MaxCalls == 3

\* ---------------------------------------------------------------- values
\* Every JavaScript value a promise or a field can hold is a record of one
\* shape, so that values of different kinds can be compared.
NullV == [type |-> "null", digest |-> "", message |-> "", origin |-> <<>>]
UndefinedV == [type |-> "undefined", digest |-> "", message |-> "", origin |-> <<>>]

\* An error object. origin names the place that created it, so two errors
\* created by different calls are different objects.
Err(digest, message, origin) ==
    [type |-> "error", digest |-> digest, message |-> message, origin |-> origin]

NotFoundDigest == "NEXT_NOT_FOUND"

\* The error of line 165-167.
OrderingError ==
    Err("", "getMetadataReady was called before MetadataTree rendered", <<>>)

isNotFoundError(error) ==
    error.type = "error" /\ error.digest = NotFoundDigest

\* `!x` / `x || y` of JavaScript on the values above.
Falsy(x) == x.type \in {"null", "undefined"}
OrElse(x, y) == IF Falsy(x) THEN y ELSE x

\* The pairs [MetadataTree, getMetadataReady] that may exist.
PairIds == {"A", "B"}

\* errorType?: 'not-found' | 'redirect'
ErrorTypes == {"undefined", "not-found", "redirect"}

\* ------------------------------------------------------- resolved metadata
\* ResolvedMetadata restricted to the slices createMetadataElements reads;
\* "" is an absent slice.
Metadata(title, openGraph, icons) ==
    [title |-> title, alternates |-> "", itunes |-> "", facebook |-> "",
     formatDetection |-> "", verification |-> "", appleWebApp |-> "",
     openGraph |-> openGraph, twitter |-> "", appLinks |-> "", icons |-> icons]

Viewport(width) == [width |-> width]

\* What one resolution pass may hand back as [metadata, viewport].
ResolvedSamples ==
    { <<Metadata("", "", ""), Viewport("")>>,
      <<Metadata("Page", "og:page", ""), Viewport("device-width")>>,
      <<Metadata("Not Found", "", ""), Viewport("")>> }

\* A head element; key = NoKey until React.cloneElement gives it one.
NoKey == -1
Element(tag, name, content) ==
    [tag |-> tag, name |-> name, content |-> content, key |-> NoKey]

\* One builder per metadata category: nothing for an absent slice.
Tags(tag, name, content) ==
    IF content = "" THEN <<>> ELSE <<Element(tag, name, content)>>

ViewportMeta(viewport) == Tags("meta", "viewport", viewport.width)
BasicMeta(metadata) == Tags("title", "", metadata.title)
AlternatesMetadata(alternates) == Tags("link", "alternate", alternates)
ItunesMeta(itunes) == Tags("meta", "apple-itunes-app", itunes)
FacebookMeta(facebook) == Tags("meta", "fb:app_id", facebook)
FormatDetectionMeta(formatDetection) ==
    Tags("meta", "format-detection", formatDetection)
VerificationMeta(verification) ==
    Tags("meta", "google-site-verification", verification)
AppleWebAppMeta(appleWebApp) ==
    Tags("meta", "apple-mobile-web-app-title", appleWebApp)
OpenGraphMetadata(openGraph) == Tags("meta", "og:title", openGraph)
TwitterMetadata(twitter) == Tags("meta", "twitter:card", twitter)
AppLinksMeta(appLinks) == Tags("meta", "al:web:url", appLinks)
IconsMetadata(icons) == Tags("link", "icon", icons)

\* MetaFilter flattens the builders' outputs, in order, dropping the empty ones.
RECURSIVE MetaFilter(_)
MetaFilter(items) ==
    IF items = <<>> THEN <<>> ELSE Head(items) \o MetaFilter(Tail(items))

createMetadataElements(metadata, viewport) ==
    MetaFilter(<<
        ViewportMeta(viewport),
        BasicMeta(metadata),
        AlternatesMetadata(metadata.alternates),
        ItunesMeta(metadata.itunes),
        FacebookMeta(metadata.facebook),
        FormatDetectionMeta(metadata.formatDetection),
        VerificationMeta(metadata.verification),
        AppleWebAppMeta(metadata.appleWebApp),
        OpenGraphMetadata(metadata.openGraph),
        TwitterMetadata(metadata.twitter),
        AppLinksMeta(metadata.appLinks),
        IconsMetadata(metadata.icons) >>)

\* React.cloneElement(el, { key: index }); TLA+ sequences start at 1, the
\* array index of the i-th element is i - 1.
cloneElement(el, props) == [el EXCEPT !.key = props.key]

SizeAdjustMeta == Element("meta", "next-size-adjust", "")

\* Variant of line 153 with keys counted from 1.
RenderFragmentKeysFromOne(elements, appUsingSizeAdjustment) ==
    [i \in 1..Len(elements) |-> cloneElement(elements[i], [key |-> i])]
    \o (IF appUsingSizeAdjustment THEN <<SizeAdjustMeta>> ELSE <<>>)

\* The fragment MetadataTree returns (lines 150-157).
RenderFragment(elements, appUsingSizeAdjustment) ==
    [i \in 1..Len(elements) |-> cloneElement(elements[i], [key |-> i - 1])]
    \o (IF appUsingSizeAdjustment THEN <<SizeAdjustMeta>> ELSE <<>>)

\* ------------------------------------------------------------------ state
VARIABLES
    props,                \* pair -> the arguments of createMetadataComponents
    currentMetadataReady, \* pair -> 0 (null) or the index of the execution
                          \*         whose metadataReady the cell holds
    execs,                \* pair -> the MetadataTree executions, in call order
    outlets,              \* the getMetadataReady invocations, in call order
    queue                 \* the job (microtask) queue, FIFO

vars == <<props, currentMetadataReady, execs, outlets, queue>>

Pairs == DOMAIN props

Job(job, pair, idx) == [job |-> job, pair |-> pair, idx |-> idx]

TotalExecs(ex, ps) ==
    LET RECURSIVE Sum(_)
        Sum(S) == IF S = {} THEN 0
                  ELSE LET x == CHOOSE y \in S : TRUE
                       IN Len(ex[x]) + Sum(S \ {x})
    IN Sum(ps)

\* The host may make one more call.
HostMayCall == TotalExecs(execs, Pairs) + Len(outlets) < MaxCalls

\* ------------------------------------------------- getResolvedMetadata
\* Variant of line 186 that passes errorType through.
ErrorConventionPassThrough(errorType) == errorType

\* line 186
ErrorConvention(errorType) ==
    IF errorType = "redirect" THEN "undefined" ELSE errorType

\* Variants of line 207 with the negation of errorType dropped, and with the
\* errorType test dropped.
TakesFallbackNegationDropped(errorType, error) ==
    errorType # "undefined" /\ isNotFoundError(error)

TakesFallbackAnyErrorType(errorType, error) ==
    isNotFoundError(error)

\* line 207: `!errorType && isNotFoundError(error)`
TakesFallback(errorType, error) ==
    errorType = "undefined" /\ isNotFoundError(error)

\* line 201
SuccessOutcome(metadata, viewport) ==
    [error |-> NullV, elements |-> createMetadataElements(metadata, viewport)]

\* Variants of lines 220-223: `error || notFoundMetadataError`, and `[]` for
\* the elements.
FallbackOutcomeOriginalFirst(notFoundMetadataError, error, notFoundMetadata, notFoundViewport) ==
    [error |-> OrElse(error, notFoundMetadataError),
     elements |-> createMetadataElements(notFoundMetadata, notFoundViewport)]

FallbackOutcomeNoElements(notFoundMetadataError, error, notFoundMetadata, notFoundViewport) ==
    [error |-> OrElse(notFoundMetadataError, error), elements |-> <<>>]

\* lines 220-223
FallbackOutcome(notFoundMetadataError, error, notFoundMetadata, notFoundViewport) ==
    [error |-> OrElse(notFoundMetadataError, error),
     elements |-> createMetadataElements(notFoundMetadata, notFoundViewport)]

\* line 225
ErrorOutcome(error) == [error |-> error, elements |-> <<>>]

\* What a resolveMetadata call of execution e of pair p, pass k, may settle to:
\* a tuple [error, metadata, viewport] or a rejection.
ResolverTuple(error, sample) ==
    [kind |-> "tuple", error |-> error, metadata |-> sample[1], viewport |-> sample[2]]

\* The [metadata, viewport] that comes with an error: what the walk had
\* accumulated when it failed.
PartialSample == <<Metadata("Page", "og:page", ""), Viewport("device-width")>>

ResolverResults(p, e, k) ==
    { ResolverTuple(NullV, s) : s \in ResolvedSamples }
    \cup { ResolverTuple(Err(d, "metadata error", <<p, e, k>>), PartialSample) :
             d \in {"", NotFoundDigest} }
    \cup { [kind |-> "throw", error |-> Err("", "resolveMetadata threw", <<p, e, k>>),
            metadata |-> Metadata("", "", ""), viewport |-> Viewport("")] }

BuilderError(p, e, k) == Err("", "createMetadataElements threw", <<p, e, k>>)

\* ------------------------------------------------------------ MetadataTree
\* Variant of lines 125-133 without the `if (error)` branch.
ReadyOnFulfilledIgnoresError(error) ==
    [status |-> "fulfilled", value |-> UndefinedV, throws |-> FALSE]

\* lines 125-133: the onFulfilled continuation of metadataReady.
ReadyOnFulfilled(error) ==
    IF ~Falsy(error)
    THEN [status |-> "rejected", value |-> error, throws |-> TRUE]
    ELSE [status |-> "fulfilled", value |-> UndefinedV, throws |-> FALSE]

\* Variant of lines 134-138 that only rethrows.
ReadyOnRejectedStatusUnset(error) ==
    [status |-> "pending", value |-> UndefinedV, throws |-> TRUE]

\* lines 134-138: the onRejected continuation of metadataReady.
ReadyOnRejected(error) ==
    [status |-> "rejected", value |-> error, throws |-> TRUE]

\* The execution MetadataTree creates (lines 111-148) with its reactions
\* registered, leaving out line 140: the status property of metadataReady does
\* not exist ("unset").
CreatedExec(p, e, tree, errorType) ==
    [ \* getResolvedMetadata, run up to its first await (lines 185-199)
      wrapperCalls |-> 1,
      calls |-> << [tree |-> tree,
                    errorConvention |-> ErrorConvention(errorType),
                    searchParams |-> <<p, e, 1>>] >>,
      settled |-> 0,
      results |-> <<>>,
      grm |-> "await1",
      pendingMetadata |-> [state |-> "pending", error |-> NullV, elements |-> <<>>],
      \* line 124 registers the continuations, line 148 the await
      pendingReactions |-> <<"ready", "tree">>,
      status |-> "unset",
      value |-> UndefinedV,
      metadataReady |-> [state |-> "pending", value |-> UndefinedV],
      \* line 144
      readyReactions |-> <<Job("catch", p, e)>>,
      render |-> "awaiting",
      output |-> <<>>,
      thrown |-> NullV ]

\* Variant of MetadataTree without line 140.
NewExecStatusUnset(p, e, tree, errorType) == CreatedExec(p, e, tree, errorType)

\* Variant of MetadataTree without line 144.
NewExecNoCatch(p, e, tree, errorType) ==
    [CreatedExec(p, e, tree, errorType) EXCEPT !.status = "pending",
                                               !.readyReactions = <<>>]

\* Variant of MetadataTree that awaits pendingMetadata (line 148) before it
\* registers the continuation of line 124.
NewExecAwaitBeforeThen(p, e, tree, errorType) ==
    [CreatedExec(p, e, tree, errorType) EXCEPT !.status = "pending",
                                               !.pendingReactions = <<"tree", "ready">>]

\* The state MetadataTree leaves behind at its first suspension (lines 111-148):
\* line 140 sets the status before anything else can run.
NewExec(p, e, tree, errorType) ==
    [CreatedExec(p, e, tree, errorType) EXCEPT !.status = "pending"]

Init ==
    /\ props \in [{"A"} -> [tree : {"LoaderTree"}, errorType : ErrorTypes,
                            appUsingSizeAdjustment : BOOLEAN]]
    /\ currentMetadataReady = [p \in DOMAIN props |-> 0]
    /\ execs = [p \in DOMAIN props |-> <<>>]
    /\ outlets = <<>>
    /\ queue = <<>>

\* Variant of MetadataTree without line 141.
MetadataTreeUnpublished(p) ==
    /\ TotalExecs(execs, Pairs) < MaxExec
    /\ HostMayCall
    /\ execs' = [execs EXCEPT ![p] =
          Append(@, NewExec(p, Len(execs[p]) + 1, props[p].tree, props[p].errorType))]
    /\ UNCHANGED <<props, currentMetadataReady, outlets, queue>>

\* Variant of line 141 with one cell for all createMetadataComponents calls.
MetadataTreeSharedCell(p) ==
    /\ TotalExecs(execs, Pairs) < MaxExec
    /\ HostMayCall
    /\ LET e == Len(execs[p]) + 1 IN
        /\ execs' = [execs EXCEPT ![p] = Append(@, NewExec(p, e, props[p].tree, props[p].errorType))]
        /\ currentMetadataReady' = [q \in Pairs |-> e]
    /\ UNCHANGED <<props, outlets, queue>>

\* The host renders MetadataTree of pair p: lines 110-148, up to the await.
MetadataTree(p) ==
    /\ TotalExecs(execs, Pairs) < MaxExec
    /\ HostMayCall
    /\ LET e == Len(execs[p]) + 1 IN
        /\ execs' = [execs EXCEPT ![p] = Append(@, NewExec(p, e, props[p].tree, props[p].errorType))]
        /\ currentMetadataReady' = [currentMetadataReady EXCEPT ![p] = e]
    /\ UNCHANGED <<props, outlets, queue>>

\* The promise of a resolveMetadata call settles, and a job is queued that
\* resumes the await of getResolvedMetadata (line 189 or 209). What the promise
\* settled to is read by that job only, so it is drawn there.
ResolveMetadataSettles(p, e) ==
    /\ e \in 1..Len(execs[p])
    /\ execs[p][e].settled < Len(execs[p][e].calls)
    /\ execs' = [execs EXCEPT ![p][e].settled = @ + 1]
    /\ queue' = Append(queue, Job("grm", p, e))
    /\ UNCHANGED <<props, currentMetadataReady, outlets>>

\* A rejection of the async function: no tuple, only the thrown error.
Thrown(error) == [error |-> error, elements |-> <<>>]

\* pendingMetadata settles: its reactions are queued in registration order.
Settled(x, state, outcome) ==
    [x EXCEPT !.grm = IF state = "fulfilled" THEN "returned" ELSE "threw",
              !.pendingMetadata = [state |-> state, error |-> outcome.error,
                                   elements |-> outcome.elements]]

ReactionJobs(x, p, e) ==
    [i \in 1..Len(x.pendingReactions) |-> Job(x.pendingReactions[i], p, e)]

\* getResolvedMetadata resumes after an await (lines 189-226).
GetResolvedMetadataResume ==
    /\ queue # <<>>
    /\ Head(queue).job = "grm"
    /\ LET p == Head(queue).pair
           e == Head(queue).idx
           k == Len(execs[p][e].results) + 1
           errorType == props[p].errorType
       IN \E r \in ResolverResults(p, e, k), builderThrows \in BOOLEAN :
           LET x == [execs[p][e] EXCEPT !.results = Append(@, r)] IN
           IF r.kind = "throw"
           THEN \* the await throws: the async function rejects
                /\ execs' = [execs EXCEPT ![p][e] =
                                Settled(x, "rejected", Thrown(r.error))]
                /\ queue' = Tail(queue) \o ReactionJobs(x, p, e)
           ELSE IF x.grm = "await1" /\ ~Falsy(r.error)
                                    /\ TakesFallback(errorType, r.error)
           THEN \* lines 208-219: the second pass
                /\ execs' = [execs EXCEPT ![p][e] =
                                [x EXCEPT !.grm = "await2",
                                          !.calls = Append(@,
                                              [tree |-> props[p].tree,
                                               errorConvention |-> "not-found",
                                               searchParams |-> x.calls[1].searchParams])]]
                /\ queue' = Tail(queue)
           ELSE IF x.grm = "await1" /\ ~Falsy(r.error)
           THEN \* line 225
                /\ execs' = [execs EXCEPT ![p][e] =
                                Settled(x, "fulfilled", ErrorOutcome(r.error))]
                /\ queue' = Tail(queue) \o ReactionJobs(x, p, e)
           ELSE IF builderThrows
           THEN \* createMetadataElements throws (line 201 or 222)
                /\ execs' = [execs EXCEPT ![p][e] =
                                Settled(x, "rejected", Thrown(BuilderError(p, e, k)))]
                /\ queue' = Tail(queue) \o ReactionJobs(x, p, e)
           ELSE IF x.grm = "await1"
           THEN \* line 201
                /\ execs' = [execs EXCEPT ![p][e] =
                                Settled(x, "fulfilled",
                                        SuccessOutcome(r.metadata, r.viewport))]
                /\ queue' = Tail(queue) \o ReactionJobs(x, p, e)
           ELSE \* lines 220-223
                /\ execs' = [execs EXCEPT ![p][e] =
                                Settled(x, "fulfilled",
                                        FallbackOutcome(r.error, x.results[1].error,
                                                        r.metadata, r.viewport))]
                /\ queue' = Tail(queue) \o ReactionJobs(x, p, e)
    /\ UNCHANGED <<props, currentMetadataReady, outlets>>

\* Variant of lines 125-138 that writes status and value through the shared
\* cell instead of through its own metadataReady.
ReadyContinuationWritesCell ==
    /\ queue # <<>>
    /\ Head(queue).job = "ready"
    /\ LET p == Head(queue).pair
           e == Head(queue).idx
           c == currentMetadataReady[p]
           x == execs[p][e]
           w == IF x.pendingMetadata.state = "fulfilled"
                THEN ReadyOnFulfilled(x.pendingMetadata.error)
                ELSE ReadyOnRejected(x.pendingMetadata.error)
           settled == [execs EXCEPT ![p][e] =
                         [x EXCEPT !.metadataReady =
                                       IF w.throws
                                       THEN [state |-> "rejected",
                                             value |-> x.pendingMetadata.error]
                                       ELSE [state |-> "fulfilled", value |-> UndefinedV],
                                   !.readyReactions = <<>>]]
       IN /\ execs' = [settled EXCEPT ![p][c].status = w.status,
                                      ![p][c].value = w.value]
          /\ queue' = Tail(queue) \o x.readyReactions
    /\ UNCHANGED <<props, currentMetadataReady, outlets>>

\* The continuation registered at line 124 runs (lines 125-138).
ReadyContinuation ==
    /\ queue # <<>>
    /\ Head(queue).job = "ready"
    /\ LET p == Head(queue).pair
           e == Head(queue).idx
           x == execs[p][e]
           w == IF x.pendingMetadata.state = "fulfilled"
                THEN ReadyOnFulfilled(x.pendingMetadata.error)
                ELSE ReadyOnRejected(x.pendingMetadata.error)
       IN /\ execs' = [execs EXCEPT ![p][e] =
                         [x EXCEPT !.status = w.status,
                                   !.value = w.value,
                                   !.metadataReady =
                                       \* `throw error` rejects metadataReady
                                       IF w.throws
                                       THEN [state |-> "rejected",
                                             value |-> x.pendingMetadata.error]
                                       ELSE [state |-> "fulfilled", value |-> UndefinedV],
                                   !.readyReactions = <<>>]]
          /\ queue' = Tail(queue) \o x.readyReactions
    /\ UNCHANGED <<props, currentMetadataReady, outlets>>

\* MetadataTree resumes from `await pendingMetadata` (lines 148-157).
MetadataTreeResume ==
    /\ queue # <<>>
    /\ Head(queue).job = "tree"
    /\ LET p == Head(queue).pair
           e == Head(queue).idx
           x == execs[p][e]
       IN execs' = [execs EXCEPT ![p][e] =
             IF x.pendingMetadata.state = "fulfilled"
             THEN [x EXCEPT !.render = "rendered",
                            !.output = RenderFragment(x.pendingMetadata.elements,
                                           props[p].appUsingSizeAdjustment)]
             ELSE [x EXCEPT !.render = "threw",
                            !.thrown = x.pendingMetadata.error]]
    /\ queue' = Tail(queue)
    /\ UNCHANGED <<props, currentMetadataReady, outlets>>

\* The throwaway handler of line 144 runs.
CatchHandler ==
    /\ queue # <<>>
    /\ Head(queue).job = "catch"
    /\ queue' = Tail(queue)
    /\ UNCHANGED <<props, currentMetadataReady, execs, outlets>>

\* -------------------------------------------------------- getMetadataReady
\* Variant of lines 162-167 without the throw.
OutletCheckNoThrow(cell) == [returns |-> cell, throws |-> FALSE]

\* lines 162-167: what the deferred callback does with the cell.
OutletCheck(cell) ==
    IF cell # 0
    THEN [returns |-> cell, throws |-> FALSE]
    ELSE [returns |-> 0, throws |-> TRUE]

\* Variant of line 161 whose callback is never queued.
getMetadataReadyNotQueued(p) ==
    /\ Len(outlets) < MaxOutlet
    /\ HostMayCall
    /\ outlets' = Append(outlets,
          [pair |-> p,
           execsAtCall |-> Len(execs[p]),
           execsAtCheck |-> -1,
           stage |-> "scheduled",
           target |-> 0,
           state |-> "pending",
           value |-> UndefinedV])
    /\ UNCHANGED <<props, currentMetadataReady, execs, queue>>

\* The host calls getMetadataReady of pair p (lines 160-161): the callback is
\* queued at once, since Promise.resolve() is already fulfilled.
getMetadataReady(p) ==
    /\ Len(outlets) < MaxOutlet
    /\ HostMayCall
    /\ outlets' = Append(outlets,
          [pair |-> p,
           execsAtCall |-> Len(execs[p]),
           execsAtCheck |-> -1,
           stage |-> "scheduled",
           target |-> 0,
           state |-> "pending",
           value |-> UndefinedV])
    /\ queue' = Append(queue, Job("check", p, Len(outlets) + 1))
    /\ UNCHANGED <<props, currentMetadataReady, execs>>

\* Variant of lines 161-168 that empties the cell once it has returned it.
getMetadataReadyCheckConsumes ==
    /\ queue # <<>>
    /\ Head(queue).job = "check"
    /\ LET o == Head(queue).idx
           p == outlets[o].pair
           c == OutletCheck(currentMetadataReady[p])
       IN /\ outlets' = [outlets EXCEPT ![o] =
                [@ EXCEPT !.execsAtCheck = Len(execs[p]),
                          !.stage = IF c.throws THEN "settled" ELSE "resolving",
                          !.state = IF c.throws THEN "rejected" ELSE "pending",
                          !.value = IF c.throws THEN OrderingError ELSE UndefinedV,
                          !.target = c.returns]]
          /\ queue' = Tail(queue) \o (IF c.throws THEN <<>> ELSE <<Job("thenable", p, o)>>)
          /\ currentMetadataReady' = [currentMetadataReady EXCEPT ![p] = 0]
    /\ UNCHANGED <<props, execs>>

\* The deferred callback runs (lines 161-168).
getMetadataReadyCheck ==
    /\ queue # <<>>
    /\ Head(queue).job = "check"
    /\ LET o == Head(queue).idx
           p == outlets[o].pair
           c == OutletCheck(currentMetadataReady[p])
       IN IF c.throws
          THEN /\ outlets' = [outlets EXCEPT ![o] =
                     [@ EXCEPT !.execsAtCheck = Len(execs[p]),
                               !.stage = "settled",
                               !.state = "rejected",
                               !.value = OrderingError]]
               /\ queue' = Tail(queue)
          ELSE \* resolved with a thenable: a job will call its then()
               /\ outlets' = [outlets EXCEPT ![o] =
                     [@ EXCEPT !.execsAtCheck = Len(execs[p]),
                               !.stage = "resolving",
                               !.target = c.returns]]
               /\ queue' = Tail(queue) \o <<Job("thenable", p, o)>>
    /\ UNCHANGED <<props, currentMetadataReady, execs>>

\* The job that subscribes the returned promise to metadataReady.
OutletSubscribe ==
    /\ queue # <<>>
    /\ Head(queue).job = "thenable"
    /\ LET o == Head(queue).idx
           p == outlets[o].pair
           e == outlets[o].target
       IN IF execs[p][e].metadataReady.state = "pending"
          THEN /\ execs' = [execs EXCEPT ![p][e].readyReactions =
                               Append(@, Job("outlet", p, o))]
               /\ outlets' = [outlets EXCEPT ![o].stage = "subscribed"]
               /\ queue' = Tail(queue)
          ELSE /\ outlets' = [outlets EXCEPT ![o].stage = "subscribed"]
               /\ queue' = Tail(queue) \o <<Job("outlet", p, o)>>
               /\ UNCHANGED execs
    /\ UNCHANGED <<props, currentMetadataReady>>

\* The returned promise follows metadataReady.
OutletSettle ==
    /\ queue # <<>>
    /\ Head(queue).job = "outlet"
    /\ LET o == Head(queue).idx
           p == outlets[o].pair
           m == execs[p][outlets[o].target].metadataReady
       IN outlets' = [outlets EXCEPT ![o] =
             [@ EXCEPT !.stage = "settled", !.state = m.state, !.value = m.value]]
    /\ queue' = Tail(queue)
    /\ UNCHANGED <<props, currentMetadataReady, execs>>

\* ------------------------------------------------------------------- spec
Next ==
    \/ \E p \in Pairs : MetadataTree(p)
    \/ \E p \in Pairs : \E e \in 1..MaxExec + 1 : ResolveMetadataSettles(p, e)
    \/ GetResolvedMetadataResume
    \/ ReadyContinuation
    \/ MetadataTreeResume
    \/ CatchHandler
    \/ \E p \in Pairs : getMetadataReady(p)
    \/ getMetadataReadyCheck
    \/ OutletSubscribe
    \/ OutletSettle

Spec == Init /\ [][Next]_vars

\* The job at the head of the microtask queue runs.
RunJob ==
    \/ GetResolvedMetadataResume
    \/ ReadyContinuation
    \/ MetadataTreeResume
    \/ CatchHandler
    \/ getMetadataReadyCheck
    \/ OutletSubscribe
    \/ OutletSettle

\* Some outstanding resolveMetadata call settles.
SomeResolveMetadataSettles ==
    \E p \in Pairs : \E e \in 1..MaxExec + 1 : ResolveMetadataSettles(p, e)

\* The engine runs queued microtasks until the queue is empty, and every
\* resolveMetadata call (lines 189, 209) settles in the end; the host is under
\* no obligation to call MetadataTree or getMetadataReady.
FairSpec == Spec /\ WF_vars(RunJob) /\ WF_vars(SomeResolveMetadataSettles)

\* Two createMetadataComponents calls (lines 82-108) in one app: each call has
\* its own props and its own cell, which starts at null. The two calls get the
\* app's appUsingSizeAdjustment.
InitTwoPairs ==
    /\ props \in [PairIds -> [tree : {"LoaderTree"}, errorType : ErrorTypes,
                              appUsingSizeAdjustment : BOOLEAN]]
    /\ props["A"].appUsingSizeAdjustment = props["B"].appUsingSizeAdjustment
    /\ currentMetadataReady = [p \in DOMAIN props |-> 0]
    /\ execs = [p \in DOMAIN props |-> <<>>]
    /\ outlets = <<>>
    /\ queue = <<>>

SpecTwoPairs == InitTwoPairs /\ [][Next]_vars

\* ----------------------------------------------------------------- claims
\* The elements createMetadataElements builds from a resolver tuple.
Built(r) == createMetadataElements(r.metadata, r.viewport)

\* Execution e of pair p went through the not-found fallback: no errorType and
\* a first pass that returned an error classified as not-found.
FirstPassNotFound(p, e) ==
    /\ props[p].errorType = "undefined"
    /\ Len(execs[p][e].results) >= 1
    /\ execs[p][e].results[1].kind = "tuple"
    /\ isNotFoundError(execs[p][e].results[1].error)

\* C1: with no errorType, when the first resolveMetadata pass returns a
\* not-found error, exactly one further pass is made (errorConvention
\* 'not-found', same tree), never a third, and what MetadataTree renders is
\* built from the second pass's metadata and viewport, not from the first's.
C1_FallbackOnceAndRendered ==
    \A p \in Pairs : \A e \in 1..Len(execs[p]) :
        LET x == execs[p][e] IN
        /\ Len(x.calls) <= 2
        /\ FirstPassNotFound(p, e) =>
            /\ Len(x.calls) = 2
            /\ x.calls[2].errorConvention = "not-found"
            /\ x.calls[2].tree = x.calls[1].tree
            /\ x.render = "rendered" =>
                /\ Len(x.results) = 2
                /\ x.output = RenderFragment(Built(x.results[2]),
                                             props[p].appUsingSizeAdjustment)
                /\ Built(x.results[1]) # Built(x.results[2]) =>
                       x.output # RenderFragment(Built(x.results[1]),
                                                 props[p].appUsingSizeAdjustment)

C1_Witness ==
    \E p \in Pairs : \E e \in 1..Len(execs[p]) :
        /\ FirstPassNotFound(p, e)
        /\ execs[p][e].render = "rendered"
        /\ Built(execs[p][e].results[1]) # Built(execs[p][e].results[2])
        /\ Len(execs[p][e].output) >= 1

\* The fallback pass of execution e of pair p has been made and has settled.
FallbackSettled(p, e) ==
    /\ Len(execs[p][e].calls) = 2
    /\ Len(execs[p][e].results) = 2

\* C2 as stated: when the fallback pass runs, the Readiness State rejects with
\* the fallback pass's error if there is one and with the original not-found
\* error otherwise, and it never fulfills.
C2_RejectsWithFallbackOrOriginal ==
    \A p \in Pairs : \A e \in 1..Len(execs[p]) :
        LET x == execs[p][e] IN
        FallbackSettled(p, e) =>
            /\ x.status # "fulfilled"
            /\ x.status = "rejected" =>
                   x.value = OrElse(x.results[2].error, x.results[1].error)

\* C2 amended: the same, except that when createMetadataElements throws on the
\* fallback pass's result the Readiness State rejects with the error it threw;
\* the Fault Outlet's promise that follows this Readiness State settles the
\* same way and never fulfills.
C2_RejectsWithFallbackOriginalOrThrown ==
    \A p \in Pairs : \A e \in 1..Len(execs[p]) :
        LET x == execs[p][e] IN
        FallbackSettled(p, e) =>
            /\ x.status # "fulfilled"
            /\ x.status = "rejected" =>
                   x.value = IF x.results[2].kind = "tuple" /\ x.grm = "threw"
                             THEN BuilderError(p, e, 2)
                             ELSE OrElse(x.results[2].error, x.results[1].error)
            /\ \A o \in 1..Len(outlets) :
                   (outlets[o].pair = p /\ outlets[o].target = e
                        /\ outlets[o].stage = "settled") =>
                       /\ outlets[o].state = "rejected"
                       /\ outlets[o].value = x.value

\* Both flavours: a fallback pass that returned an error, and one that did not.
C2_Witness ==
    \E p \in Pairs : \E e \in 1..Len(execs[p]) : \E o \in 1..Len(outlets) :
        /\ FallbackSettled(p, e)
        /\ execs[p][e].grm = "returned"
        /\ Falsy(execs[p][e].results[2].error)
        /\ execs[p][e].value = execs[p][e].results[1].error
        /\ outlets[o].pair = p /\ outlets[o].target = e
        /\ outlets[o].state = "rejected"

\* C3: with an explicit errorType, resolveMetadata is called exactly once per
\* execution whatever it returns, and an erroring outcome is (error, []).
C3_ExplicitErrorTypeSinglePass ==
    \A p \in Pairs : \A e \in 1..Len(execs[p]) :
        LET x == execs[p][e] IN
        props[p].errorType # "undefined" =>
            /\ Len(x.calls) = 1
            /\ x.settled <= 1
            /\ (x.grm = "returned" /\ ~Falsy(x.results[1].error)) =>
                   /\ x.pendingMetadata.state = "fulfilled"
                   /\ x.pendingMetadata.error = x.results[1].error
                   /\ x.pendingMetadata.elements = <<>>

C3_Witness ==
    \E p \in Pairs : \E e \in 1..Len(execs[p]) :
        /\ props[p].errorType # "undefined"
        /\ execs[p][e].grm = "returned"
        /\ isNotFoundError(execs[p][e].results[1].error)
        /\ execs[p][e].render = "rendered"

\* The continuation of line 124 of execution e of pair p has run.
ContinuationRan(p, e) ==
    /\ execs[p][e].pendingMetadata.state # "pending"
    /\ \A i \in 1..Len(queue) : queue[i] # Job("ready", p, e)

\* C4: the status of each Readiness State changes only from 'pending' to
\* 'fulfilled' or 'rejected', after which status and value stay as they are;
\* and it has made that change once the continuation has run, for every
\* outcome: a success, an error tuple, a rejected outcome promise.
C4_StatusChangesOnce ==
    /\ [][\A p \in Pairs : \A e \in 1..Len(execs[p]) :
            LET x == execs[p][e]
                y == execs'[p][e]
            IN /\ x.status \in {"fulfilled", "rejected"} =>
                      (y.status = x.status /\ y.value = x.value)
               /\ x.status = "pending" =>
                      y.status \in {"pending", "fulfilled", "rejected"}]_vars
    /\ [](\A p \in Pairs : \A e \in 1..Len(execs[p]) :
            LET x == execs[p][e] IN
            /\ x.status \in {"pending", "fulfilled", "rejected"}
            /\ ContinuationRan(p, e) =>
                   x.status = IF x.pendingMetadata.state = "fulfilled"
                                 /\ Falsy(x.pendingMetadata.error)
                              THEN "fulfilled" ELSE "rejected")

C4_Witness ==
    \E p \in Pairs : \E e1, e2 \in 1..Len(execs[p]) :
        /\ execs[p][e1].status = "rejected"
        /\ execs[p][e1].pendingMetadata.state = "rejected"
        /\ execs[p][e2].status = "fulfilled"

\* C5 as stated: a getMetadataReady call made before any MetadataTree
\* execution of its pair always ends rejected with the ordering error.
C5_EarlyCallAlwaysOrderingError ==
    \A o \in 1..Len(outlets) :
        (outlets[o].execsAtCall = 0 /\ outlets[o].stage # "scheduled") =>
            /\ outlets[o].state = "rejected"
            /\ outlets[o].value = OrderingError

\* C5 amended: the promise rejects with the ordering error exactly when
\* MetadataTree has still not executed at the moment the deferred check runs,
\* and it is then rejected by that check itself; the check is queued by the
\* call, so the promise does not wait on anything else. A MetadataTree
\* execution between the call and the check makes the check return that
\* execution's Readiness State instead.
C5_OrderingErrorIffUnpublishedAtCheck ==
    \A o \in 1..Len(outlets) :
        LET t == outlets[o] IN
        /\ t.stage = "scheduled" =>
               \E i \in 1..Len(queue) : queue[i] = Job("check", t.pair, o)
        /\ (t.stage # "scheduled" /\ t.execsAtCheck = 0) =>
               /\ t.stage = "settled"
               /\ t.state = "rejected"
               /\ t.value = OrderingError
        /\ (t.stage # "scheduled" /\ t.execsAtCheck > 0) =>
               /\ t.value # OrderingError
               /\ t.target = t.execsAtCheck

C5_Witness ==
    \E o1, o2 \in 1..Len(outlets) :
        /\ outlets[o1].execsAtCall = 0
        /\ outlets[o1].execsAtCheck = 0
        /\ outlets[o1].value = OrderingError
        /\ outlets[o2].execsAtCall = 0
        /\ outlets[o2].execsAtCheck > 0
        /\ outlets[o2].stage = "settled"

\* C6: MetadataTree completes successfully whatever way resolution fails; no
\* error is thrown out of it.
C6_MetadataTreeNeverThrows ==
    \A p \in Pairs : \A e \in 1..Len(execs[p]) : execs[p][e].render # "threw"

\* A generic (not not-found) error returned by the first pass, no errorType.
GenericError(p, e) ==
    /\ props[p].errorType = "undefined"
    /\ Len(execs[p][e].results) >= 1
    /\ execs[p][e].results[1].kind = "tuple"
    /\ ~Falsy(execs[p][e].results[1].error)
    /\ ~isNotFoundError(execs[p][e].results[1].error)

\* C7: a promise returned by getMetadataReady called after MetadataTree has
\* executed settles as the Readiness State does: fulfilled with undefined
\* exactly when the outcome's error is null, otherwise rejected with the
\* outcome's error; for a generic resolver error that error, and MetadataTree
\* then renders no builder element.
C7_OutletSettlesAsReadiness ==
    \A o \in 1..Len(outlets) :
        LET t == outlets[o] IN
        (t.execsAtCall > 0 /\ t.stage = "settled") =>
            /\ t.target \in 1..Len(execs[t.pair])
            /\ LET x == execs[t.pair][t.target] IN
               /\ t.state \in {"fulfilled", "rejected"}
               /\ t.state = x.status
               /\ t.value = x.value
               /\ t.state = "fulfilled" <=>
                      (x.pendingMetadata.state = "fulfilled"
                           /\ x.pendingMetadata.error = NullV)
               /\ t.state = "fulfilled" => t.value = UndefinedV
               /\ t.state = "rejected" => t.value = x.pendingMetadata.error
               /\ GenericError(t.pair, t.target) =>
                      /\ t.state = "rejected"
                      /\ t.value = x.results[1].error
                      /\ x.render = "rendered" =>
                             x.output = RenderFragment(<<>>,
                                 props[t.pair].appUsingSizeAdjustment)

C7_Witness ==
    \E o \in 1..Len(outlets) :
        /\ outlets[o].execsAtCall > 0
        /\ outlets[o].state = "rejected"
        /\ GenericError(outlets[o].pair, outlets[o].target)
        /\ execs[outlets[o].pair][outlets[o].target].render = "rendered"

\* C8 as stated: in every outcome of getResolvedMetadata a non-null error
\* comes with an empty element list, the fallback path included.
C8_ErrorImpliesNoElements ==
    \A p \in Pairs : \A e \in 1..Len(execs[p]) :
        LET m == execs[p][e].pendingMetadata IN
        (m.state = "fulfilled" /\ m.error # NullV) => m.elements = <<>>

\* C8 amended: a non-null error comes with an empty element list on every
\* path but the not-found fallback path; there the outcome carries the error
\* together with the elements built from the fallback pass's metadata and
\* viewport, and MetadataTree renders them.
C8_ErrorImpliesNoElementsUnlessFallback ==
    \A p \in Pairs : \A e \in 1..Len(execs[p]) :
        LET x == execs[p][e]
            m == x.pendingMetadata
        IN (m.state = "fulfilled" /\ m.error # NullV) =>
               /\ m.elements = IF Len(x.calls) = 2 THEN Built(x.results[2]) ELSE <<>>
               /\ x.render = "rendered" =>
                      x.output = RenderFragment(m.elements,
                                     props[p].appUsingSizeAdjustment)

C8_Witness ==
    \E p \in Pairs : \E e1, e2 \in 1..Len(execs[p]) :
        /\ execs[p][e1].pendingMetadata.state = "fulfilled"
        /\ execs[p][e1].pendingMetadata.error # NullV
        /\ Len(execs[p][e1].calls) = 2
        /\ Len(execs[p][e1].output) >= 2
        /\ execs[p][e2].pendingMetadata.state = "fulfilled"
        /\ execs[p][e2].pendingMetadata.error # NullV
        /\ Len(execs[p][e2].calls) = 1
        /\ execs[p][e2].render = "rendered"

\* C9: after a successful resolution MetadataTree renders the builder's n
\* elements in order, the i-th (from 0) with key i, then one 'next-size-adjust'
\* meta tag if appUsingSizeAdjustment and nothing more otherwise.
C9_RenderedElements ==
    \A p \in Pairs : \A e \in 1..Len(execs[p]) :
        LET x == execs[p][e]
            adjust == props[p].appUsingSizeAdjustment
        IN (x.render = "rendered" /\ x.pendingMetadata.error = NullV) =>
            LET built == Built(x.results[1])
                n == Len(built)
            IN /\ Len(x.output) = IF adjust THEN n + 1 ELSE n
               /\ \A i \in 1..n :
                      /\ x.output[i].key = i - 1
                      /\ [x.output[i] EXCEPT !.key = NoKey] = built[i]
               /\ \A i, j \in 1..n : i # j => x.output[i].key # x.output[j].key
               /\ adjust => /\ x.output[n + 1].tag = "meta"
                            /\ x.output[n + 1].name = "next-size-adjust"
               /\ \A i \in 1..n : x.output[i].name # "next-size-adjust"

C9_Witness ==
    \E p \in Pairs : \E e \in 1..Len(execs[p]) :
        /\ execs[p][e].render = "rendered"
        /\ execs[p][e].pendingMetadata.error = NullV
        /\ props[p].appUsingSizeAdjustment
        /\ Len(execs[p][e].output) = 4

\* C10: when MetadataTree has executed before the deferred check runs, the
\* check raises no ordering error and returns the Readiness State in the cell,
\* that of the latest execution; the returned promise stays pending as long as
\* that Readiness State is pending and then settles as it did.
C10_OutletFollowsPublishedState ==
    \A o \in 1..Len(outlets) :
        LET t == outlets[o] IN
        t.execsAtCheck > 0 =>
            /\ t.value # OrderingError
            /\ t.target = t.execsAtCheck
            /\ LET x == execs[t.pair][t.target] IN
               /\ x.status = "pending" => t.state = "pending"
               /\ t.state # "pending" => t.state = x.status

C10_Witness ==
    \E o \in 1..Len(outlets) :
        /\ outlets[o].execsAtCheck = 1
        /\ Len(execs[outlets[o].pair]) = 2
        /\ outlets[o].state = "fulfilled"
        /\ execs[outlets[o].pair][2].status = "pending"

\* C11: whenever the cell is non-null, the Readiness State it holds has status
\* 'pending', 'fulfilled' or 'rejected', never an unset one; it is 'pending'
\* until a continuation of line 124 has run; 'fulfilled' comes with value
\* undefined and 'rejected' with the resolution error as value.
C11_PublishedStatusIsSet ==
    \A p \in Pairs :
        currentMetadataReady[p] # 0 =>
            LET e == currentMetadataReady[p]
                x == execs[p][e]
            IN /\ x.status \in {"pending", "fulfilled", "rejected"}
               /\ ~ContinuationRan(p, e) => x.status = "pending"
               /\ x.status = "fulfilled" =>
                      /\ x.value = UndefinedV
                      /\ x.pendingMetadata.state = "fulfilled"
                      /\ x.pendingMetadata.error = NullV
               /\ x.status = "rejected" =>
                      /\ x.value.type = "error"
                      /\ x.value = x.pendingMetadata.error

C11_Witness ==
    \E p \in Pairs : \E o \in 1..Len(outlets) :
        /\ currentMetadataReady[p] # 0
        /\ execs[p][currentMetadataReady[p]].status = "rejected"
        /\ execs[p][currentMetadataReady[p]].value.type = "error"
        /\ outlets[o].pair = p
        /\ outlets[o].target = currentMetadataReady[p]

\* C12: a rejection of metadataReady is never unhandled: as long as it is
\* pending, so at the moment it rejects, the no-op catch of line 144 is among
\* its reactions, with or without a getMetadataReady call; and pendingMetadata
\* has the continuations of line 124 attached as long as it is pending.
C12_RejectionsAreHandled ==
    \A p \in Pairs : \A e \in 1..Len(execs[p]) :
        LET x == execs[p][e] IN
        /\ x.metadataReady.state = "pending" =>
               \E i \in 1..Len(x.readyReactions) :
                   x.readyReactions[i] = Job("catch", p, e)
        /\ x.pendingMetadata.state = "pending" =>
               \E i \in 1..Len(x.pendingReactions) : x.pendingReactions[i] = "ready"

C12_Witness ==
    \E p \in Pairs : \E e \in 1..Len(execs[p]) :
        /\ outlets = <<>>
        /\ execs[p][e].metadataReady.state = "rejected"
        /\ \E i \in 1..Len(queue) : queue[i] = Job("catch", p, e)

\* C13: the first resolveMetadata call gets errorConvention 'not-found'
\* exactly when errorType is 'not-found' and undefined when errorType is
\* 'redirect' or absent; the fallback call, if made, gets 'not-found'; both
\* calls get the tracked search params of the one wrapper invocation.
C13_ConventionsAndSearchParams ==
    \A p \in Pairs : \A e \in 1..Len(execs[p]) :
        LET x == execs[p][e] IN
        /\ x.calls[1].errorConvention = "not-found" <=> props[p].errorType = "not-found"
        /\ props[p].errorType \in {"redirect", "undefined"} =>
               x.calls[1].errorConvention = "undefined"
        /\ x.wrapperCalls = 1
        /\ x.calls[1].searchParams = <<p, e, x.wrapperCalls>>
        /\ Len(x.calls) = 2 =>
               /\ x.calls[2].errorConvention = "not-found"
               /\ x.calls[2].searchParams = x.calls[1].searchParams

C13_Witness ==
    \E p \in Pairs : \E e \in 1..Len(execs[p]) :
        /\ Len(execs[p][e].calls) = 2
        /\ execs[p][e].calls[1].errorConvention = "undefined"
        /\ execs[p][e].grm = "returned"

\* A step of getMetadataReady or of a job it queued.
OutletStep ==
    \/ \E p \in Pairs : getMetadataReady(p)
    \/ getMetadataReadyCheck
    \/ OutletSubscribe
    \/ OutletSettle

\* status or value of the Readiness State of execution e of pair p changes.
ReadinessWritten(p, e) ==
    \/ execs'[p][e].status # execs[p][e].status
    \/ execs'[p][e].value # execs[p][e].value

\* C14: the Readiness State has one writer. No step of getMetadataReady, at
\* any point and however often it is called, changes the cell or the status or
\* value of any Readiness State; the cell changes only when MetadataTree is
\* executed, to that execution's state; status and value of a Readiness State
\* change only in the continuation of its own execution.
C14_SingleWriter ==
    [][/\ OutletStep =>
            /\ currentMetadataReady' = currentMetadataReady
            /\ \A p \in Pairs : \A e \in 1..Len(execs[p]) : ~ReadinessWritten(p, e)
       /\ \A p \in Pairs :
            /\ currentMetadataReady'[p] # currentMetadataReady[p] =>
                   /\ MetadataTree(p)
                   /\ currentMetadataReady'[p] = Len(execs'[p])
            /\ \A e \in 1..Len(execs[p]) :
                   ReadinessWritten(p, e) =>
                       /\ ReadyContinuation
                       /\ Head(queue) = Job("ready", p, e)]_vars

C14_Witness ==
    \E p \in Pairs :
        /\ Len(outlets) = 2
        /\ \A o \in 1..2 : outlets[o].stage = "settled" /\ outlets[o].target = 1
        /\ outlets[1].execsAtCall = 0
        /\ currentMetadataReady[p] = 1
        /\ execs[p][1].status = "fulfilled"

\* C15: each execution of MetadataTree of a pair creates a fresh Readiness
\* State at 'pending' and puts it in the cell, leaving the earlier ones as they
\* are; a continuation writes status and value of the Readiness State of its
\* own execution only, from its own outcome, whatever the order in which the
\* executions resolve; the cell never goes back to null.
C15_FreshStatePerExecution ==
    [][\A p \in Pairs :
        /\ currentMetadataReady[p] # 0 => currentMetadataReady'[p] # 0
        /\ Len(execs'[p]) # Len(execs[p]) =>
               /\ Len(execs'[p]) = Len(execs[p]) + 1
               /\ execs'[p][Len(execs'[p])].status = "pending"
               /\ execs'[p][Len(execs'[p])].metadataReady.state = "pending"
               /\ currentMetadataReady'[p] = Len(execs'[p])
               /\ \A e \in 1..Len(execs[p]) : execs'[p][e] = execs[p][e]
        /\ \A e \in 1..Len(execs[p]) :
               ReadinessWritten(p, e) =>
                   /\ Head(queue) = Job("ready", p, e)
                   /\ execs[p][e].status = "pending"
                   /\ execs'[p][e].value \in {UndefinedV, execs[p][e].pendingMetadata.error}
                   /\ \A e2 \in 1..Len(execs[p]) :
                          e2 # e => ~ReadinessWritten(p, e2)]_vars

C15_Witness ==
    \E p \in Pairs :
        /\ Len(execs[p]) = 2
        /\ currentMetadataReady[p] = 2
        /\ execs[p][2].status = "fulfilled"
        /\ execs[p][1].status = "pending"
        /\ execs[p][1].settled = 1

\* C16: MetadataTree publishes its Readiness State in the step in which it is
\* called, and its continuation is registered on the outcome promise before
\* its own await: the continuation's job is always ahead of the job that
\* resumes MetadataTree, and when MetadataTree is about to resume, and once it
\* has completed, the Readiness State it published is 'fulfilled' or
\* 'rejected', never 'pending'.
C16_ReadinessSettledBeforeResume ==
    \A p \in Pairs :
        /\ Len(execs[p]) > 0 => currentMetadataReady[p] = Len(execs[p])
        /\ \A e \in 1..Len(execs[p]) :
               LET x == execs[p][e]
               IN /\ x.pendingMetadata.state = "pending" => x.status = "pending"
                  /\ (\E i \in 1..Len(queue) : queue[i] = Job("tree", p, e)) =>
                         \/ x.status \in {"fulfilled", "rejected"}
                         \/ \E j \in 1..Len(queue) :
                                /\ queue[j] = Job("ready", p, e)
                                /\ \A i \in 1..Len(queue) :
                                       queue[i] = Job("tree", p, e) => j < i
                  /\ (queue # <<>> /\ Head(queue) = Job("tree", p, e)) =>
                         x.status \in {"fulfilled", "rejected"}
                  /\ x.render # "awaiting" => x.status \in {"fulfilled", "rejected"}

C16_Witness ==
    \E p \in Pairs : \E e \in 1..Len(execs[p]) :
        /\ queue # <<>>
        /\ Head(queue) = Job("tree", p, e)
        /\ execs[p][e].render = "awaiting"
        /\ execs[p][e].status = "fulfilled"
        /\ \E e2 \in 1..Len(execs[p]) : execs[p][e2].render = "rendered"

\* C17: two pairs share no state. The cell of a pair holds the Readiness
\* State of the latest MetadataTree execution of that pair and of no other; a
\* getMetadataReady whose own MetadataTree had not run when it looked at the
\* cell rejects with the ordering error whatever the other pair has done, and
\* otherwise it follows a Readiness State of its own pair.
C17_PairsShareNoState ==
    /\ \A p \in Pairs : currentMetadataReady[p] = Len(execs[p])
    /\ \A o \in 1..Len(outlets) :
           LET w == outlets[o]
           IN /\ w.execsAtCheck = 0 =>
                     /\ w.stage = "settled"
                     /\ w.state = "rejected"
                     /\ w.value = OrderingError
                     /\ w.target = 0
              /\ w.target # 0 =>
                     /\ w.target \in 1..Len(execs[w.pair])
                     /\ w.stage = "settled" =>
                            /\ w.state = execs[w.pair][w.target].metadataReady.state
                            /\ w.value = execs[w.pair][w.target].metadataReady.value
                            /\ w.state = "rejected" => w.value.origin[1] = w.pair

C17_Witness ==
    /\ Len(outlets) = 2
    /\ outlets[1].pair = "A"
    /\ outlets[1].target = 1
    /\ outlets[1].stage = "settled"
    /\ outlets[2].pair = "B"
    /\ outlets[2].stage = "settled"
    /\ outlets[2].value = OrderingError
    /\ execs["B"] = <<>>

\* C18: when the microtask queue is run and every resolveMetadata call
\* settles, every MetadataTree execution completes (it renders, or it throws
\* the error its outcome promise rejected with), its Readiness State leaves
\* 'pending', and every promise getMetadataReady returned settles: fulfilled,
\* or rejected with the error of the Readiness State it followed, or rejected
\* with the ordering error.
C18_EverythingSettles ==
    /\ \A p \in PairIds : \A e \in 1..MaxExec :
           (p \in Pairs /\ Len(execs[p]) >= e)
               ~> /\ p \in Pairs
                  /\ Len(execs[p]) >= e
                  /\ execs[p][e].render \in {"rendered", "threw"}
                  /\ execs[p][e].status \in {"fulfilled", "rejected"}
    /\ \A o \in 1..MaxOutlet :
           (Len(outlets) >= o)
               ~> /\ Len(outlets) >= o
                  /\ outlets[o].stage = "settled"
                  /\ \/ outlets[o].state = "fulfilled"
                     \/ /\ outlets[o].state = "rejected"
                        /\ outlets[o].target = 0
                        /\ outlets[o].value = OrderingError
                     \/ /\ outlets[o].state = "rejected"
                        /\ outlets[o].target # 0
                        /\ outlets[o].value =
                               execs[outlets[o].pair][outlets[o].target].value

C18_Witness ==
    \E p \in Pairs :
        /\ queue = <<>>
        /\ Len(execs[p]) = MaxExec
        /\ \A e \in 1..MaxExec :
               /\ execs[p][e].render \in {"rendered", "threw"}
               /\ Len(execs[p][e].calls) = 2
               /\ execs[p][e].settled = 2
        /\ Len(outlets) = 1
        /\ outlets[1].stage = "settled"
        /\ outlets[1].execsAtCall = 1
        /\ outlets[1].target = 2

====
